---- MODULE Spec2Model ----
(***************************************************************************)
(* A model of the netxlite TLS layer (tlsHandshakerConfigurable,           *)
(* tlsHandshakerLogger, TLSDialer, ConfigureTLSVersion), of the DNS reply  *)
(* decoder (DNSDecoderMiekg), of the psiphon tunnel (psiphonStart,         *)
(* psiphonTunnel), of the QUIC listener's saverUDPConn and of the          *)
(* SerialResolver's timeout counter of probe-cli.                          *)
(*                                                                         *)
(* SpecTLS  : the dialer and the handshakers, one statement per step.      *)
(* SpecDNS  : the decoder applied to bounded parsed or corrupt replies.    *)
(* SpecVer  : ConfigureTLSVersion applied repeatedly to one config.        *)
(* SpecTun  : psiphonStart, one dependency call per step, and the methods  *)
(*            of the handle the caller holds.                              *)
(* SpecUDP  : goroutines in WriteTo and ReadFrom on connections sharing    *)
(*            one saver, one statement per step.                           *)
(* SpecRes  : goroutines in round-trips of one resolver.                   *)
(***************************************************************************)
EXTENDS Integers, Sequences, FiniteSets, TLC

VARIABLES
    \* ---- TLS layer ----
    configs,      \* the heap of *tls.Config values, indexed by pointer
    owned,        \* the pointers of the configs the caller allocated
    dConfig,      \* TLSDialer.Config: a pointer, or NilPtr
    hKind,        \* what TLSDialer.TLSHandshaker / the called handshaker is
    hTimeout,     \* tlsHandshakerConfigurable.Timeout
    conn,         \* the raw net.Conn: [open, deadline, closes]
    now,          \* the wall clock, time.Now()
    pc,           \* the statement the call in progress is at
    entry,        \* the function the caller invoked: "dial" or "direct"
    hostport,     \* DialTLSContext's locals host, port
    hsIn,         \* the config pointer Handshake received
    hsCfg,        \* Handshake's local variable config (after a possible Clone)
    hsStart,      \* the time.Now() that Handshake's SetDeadline read
    tlsCfg,       \* the config pointer handed to newConn (NilPtr: none yet)
    pending,      \* the values Handshake's return statement evaluated
    innerRet,     \* what the handshaker wrapped by the logger returned
    hsRet,        \* what the called TLSHandshaker returned to its caller
    ret,          \* what the function the caller invoked returned
    panicked,     \* TRUE when the call in progress ended in a panic
    calls,        \* completed calls
    innerCalls,   \* calls of the wrapped handshaker made by the logger call in progress
    logs,         \* Debugf lines emitted by the logger call in progress
    \* ---- DNS decoder ----
    dnsData,      \* the raw reply handed to the decoder
    dnsQtype,     \* the qtype handed to DecodeLookupHost
    dnsOp,        \* the decoder method that ran, "none" before
    dnsOut,       \* what it returned: [addrs, https, err]
    \* ---- ConfigureTLSVersion ----
    verCfg,       \* the *tls.Config: [MinVersion, MaxVersion, ServerName]
    verPrev,      \* the config as it was before the last call
    verLabel,     \* the version string of the last call
    verPrevLabel, \* the version string of the call before the last
    verErr,       \* the error the last call returned
    verCalls,     \* calls made so far
    \* ---- psiphon tunnel ----
    tunPc,        \* the statement psiphonStart is at, "idle" when no call runs
    tunCancelled, \* whether the context of the last psiphonStart was cancelled
    tunWorkDir,   \* config.WorkDir of the last psiphonStart, after its default
    tunTrace,     \* the dependency calls the last psiphonStart made: [op, ok]
    tunDir,       \* the working directory on disk: "stale", "absent", "empty", "inuse"
    tunnels,      \* the clientlib tunnels ever started: [state, port, bootstrap, stops]
    tunConfig,    \* psiphonStart's local configJSON
    tunRet,       \* what the last psiphonStart returned: [handle, err]
    tunHandle,    \* the *psiphonTunnel the caller holds: [nil, tunnel, duration]
    tunOp,        \* the last method called on the handle, "none" before
    tunOut,       \* what that method returned: [url, duration]
    tunCrashed,   \* TRUE once a method call panicked
    tunStarts,    \* psiphonStart calls made so far
    tunOps,       \* method calls made so far
    \* ---- saverUDPConn ----
    udpNow,       \* the last value time.Now() returned
    udpFrames,    \* per goroutine: the WriteTo or ReadFrom call it is in
    udpTrace,     \* the events of the shared saver, in the order appended
    udpOps,       \* calls started so far
    \* ---- SerialResolver ----
    NumTimeouts,  \* the resolver's shared timeout counter
    resFrames,    \* per goroutine: the round-trip it is in
    resTimedOut,  \* round-trips whose transport has reported a timeout
    resTrips      \* round-trips started so far

tlsVars == <<configs, owned, dConfig, hKind, hTimeout, conn, now, pc, entry,
             hostport, hsIn, hsCfg, hsStart, tlsCfg, pending, innerRet, hsRet,
             ret, panicked, calls, innerCalls, logs>>

dnsVars == <<dnsData, dnsQtype, dnsOp, dnsOut>>

verVars == <<verCfg, verPrev, verLabel, verPrevLabel, verErr, verCalls>>

tunVars == <<tunPc, tunCancelled, tunWorkDir, tunTrace, tunDir, tunnels, tunConfig,
             tunRet, tunHandle, tunOp, tunOut, tunCrashed, tunStarts, tunOps>>

udpVars == <<udpNow, udpFrames, udpTrace, udpOps>>

resVars == <<NumTimeouts, resFrames, resTimedOut, resTrips>>

\* what a step of one component leaves alone
notTLS == <<dnsVars, verVars, tunVars, udpVars, resVars>>
notDNS == <<tlsVars, verVars, tunVars, udpVars, resVars>>
notVer == <<tlsVars, dnsVars, tunVars, udpVars, resVars>>
notTun == <<tlsVars, dnsVars, verVars, udpVars, resVars>>
notUDP == <<tlsVars, dnsVars, verVars, tunVars, resVars>>
notRes == <<tlsVars, dnsVars, verVars, tunVars, udpVars>>

vars == <<tlsVars, dnsVars, verVars, tunVars, udpVars, resVars>>

----------------------------------------------------------------------------
(* Bounds                                                                  *)

MaxCalls == 2
MaxElapsed == 2
MaxAnswers == 2
MaxApply == 2
MaxStarts == 2
MaxBootstrap == 2
MaxOps == 2
MaxTime == 1
MaxUDPOps == 2
MaxRoundTrips == 3

----------------------------------------------------------------------------
(* TLS layer: values                                                       *)

NilPtr == 0
NoDeadline == 0
DefaultTimeout == 10
DefaultCertPool == "defaultCertPool"

Timeouts == {-1, 0, 2}
HandshakerKinds == {"configurable", "logger_configurable", "logger_mock"}

ServerNames == {"", "sni.example"}
ProtoLists == {<<>>, <<"custom">>}
CertPools == {"nil", "customPool"}

ConfigValues == [ServerName : ServerNames, NextProtos : ProtoLists, RootCAs : CertPools]

\* a *tls.Config the caller may hold: nil (<<>>) or one allocated config
OptionalConfigs == {<<>>} \cup {<<c>> : c \in ConfigValues}

\* &tls.Config{}
EmptyConfig == [ServerName |-> "", NextProtos |-> <<>>, RootCAs |-> "nil"]

\* addresses as token sequences: host, ":" and port
Addresses ==
    { <<"example.com", ":", "443">>, <<"example.com", ":", "853">>,
      <<"1.1.1.1", ":", "80">>, <<"example.com", ":">>, <<"example.com">>,
      <<"example.com", ":", "443", ":", "1">> }

HandshakeErrors == {"bad certificate"}
TimeoutError == "i/o timeout"

NilRet == [conn |-> "nil", state |-> "empty", err |-> "nil"]
RetValues == [conn : {"nil", "tlsconn"}, state : {"empty", "negotiated"},
              err : {"nil", "mocked error"}]

NoConn == [open |-> FALSE, deadline |-> NoDeadline, closes |-> 0]
NewConn == [open |-> TRUE, deadline |-> NoDeadline, closes |-> 0]

----------------------------------------------------------------------------
(* TLS layer: pure parts of the code                                       *)

\* the index of the last ":" of an address, 0 when there is none
RECURSIVE LastColon(_, _)
LastColon(a, i) ==
    IF i = 0 THEN 0
    ELSE IF a[i] = ":" THEN i ELSE LastColon(a, i - 1)

\* net.SplitHostPort for unbracketed addresses
SplitHostPort(a) ==
    LET i == LastColon(a, Len(a)) IN
    IF i = 0 THEN [err |-> "missing port in address", host |-> "", port |-> ""]
    ELSE IF \E j \in 1..(i - 1) : a[j] = ":"
         THEN [err |-> "too many colons in address", host |-> "", port |-> ""]
    ELSE [err |-> "nil",
          host |-> IF i > 1 THEN a[1] ELSE "",
          port |-> IF i < Len(a) THEN a[i + 1] ELSE ""]

\* TLSDialer.config: the value of the config it returns
ConfigNoALPN(tmpl, host, port) ==
    IF tmpl.ServerName = "" THEN [tmpl EXCEPT !.ServerName = host] ELSE tmpl

config(tmpl, host, port) ==
    LET c1 == IF tmpl.ServerName = "" THEN [tmpl EXCEPT !.ServerName = host] ELSE tmpl
    IN  IF Len(c1.NextProtos) <= 0
        THEN CASE port = "443" -> [c1 EXCEPT !.NextProtos = <<"h2", "http/1.1">>]
               [] port = "853" -> [c1 EXCEPT !.NextProtos = <<"dot">>]
               [] OTHER -> c1
        ELSE c1

\* TLSDialer.config: its effect on the heap; the returned pointer is Len(heap) + 1
configHeap(heap, d, host, port) ==
    LET tmpl == IF d = NilPtr THEN EmptyConfig ELSE heap[d]
    IN  Append(heap, config(tmpl, host, port))

\* Handshake: the timeout it enforces
EffectiveTimeout(t) == IF t <= 0 THEN DefaultTimeout ELSE t

\* Handshake: the RootCAs step; the heap after it
RootCAsInPlace(heap, p) ==
    IF heap[p].RootCAs = "nil"
    THEN Append([heap EXCEPT ![p].RootCAs = DefaultCertPool],
                [heap[p] EXCEPT !.RootCAs = DefaultCertPool])
    ELSE heap

RootCAsHeap(heap, p) ==
    IF heap[p].RootCAs = "nil"
    THEN Append(heap, [heap[p] EXCEPT !.RootCAs = DefaultCertPool])
    ELSE heap

\* Handshake: the RootCAs step; the pointer its local config holds after it
RootCAsPtr(heap, p) ==
    IF heap[p].RootCAs = "nil" THEN Len(heap) + 1 ELSE p

\* Handshake: the deadline the deferred conn.SetDeadline(time.Time{}) leaves
DeferredDeadlineOnSuccessOnly(c, r) ==
    IF r.err = "nil" THEN NoDeadline ELSE c.deadline

DeferredDeadline(c, r) == NoDeadline

\* tlsHandshakerLogger.Handshake: what it returns, given what the wrapped one returned
LoggerReturnPassThrough(r) == r

LoggerReturn(r) ==
    IF r.err # "nil" THEN [conn |-> "nil", state |-> "empty", err |-> r.err]
    ELSE [conn |-> r.conn, state |-> r.state, err |-> "nil"]

\* DialTLSContext: the raw connection after the handshaker returned r
DialCloseNever(c, r) == c

DialClose(c, r) ==
    IF r.err # "nil" THEN [c EXCEPT !.open = FALSE, !.closes = @ + 1] ELSE c

\* DialTLSContext: what it returns after the handshaker returned r
DialReturn(r) ==
    IF r.err # "nil" THEN [conn |-> "nil", state |-> "empty", err |-> r.err]
    ELSE [conn |-> r.conn, state |-> "empty", err |-> "nil"]

----------------------------------------------------------------------------
(* TLS layer: the state machine                                            *)

InitTLS ==
    /\ \E h \in OptionalConfigs :
          /\ configs = h
          /\ owned = DOMAIN h
          /\ dConfig = IF h = <<>> THEN NilPtr ELSE 1
    /\ hKind \in HandshakerKinds
    /\ hTimeout \in Timeouts
    /\ conn = NoConn
    /\ now = 1
    /\ pc = "idle"
    /\ entry = "none"
    /\ hostport = [host |-> "", port |-> ""]
    /\ hsIn = NilPtr
    /\ hsCfg = NilPtr
    /\ hsStart = 0
    /\ tlsCfg = NilPtr
    /\ pending = NilRet
    /\ innerRet = NilRet
    /\ hsRet = NilRet
    /\ ret = NilRet
    /\ panicked = FALSE
    /\ calls = 0
    /\ innerCalls = 0
    /\ logs = 0

\* the locals of a call that is not in progress
FreshFrame ==
    /\ hsCfg' = NilPtr
    /\ hsStart' = 0
    /\ tlsCfg' = NilPtr
    /\ pending' = NilRet
    /\ innerRet' = NilRet
    /\ hsRet' = NilRet
    /\ panicked' = FALSE
    /\ innerCalls' = 0
    /\ logs' = 0

\* the first statement of the handshaker d.TLSHandshaker / h names
HandshakerEntry == IF hKind = "configurable" THEN "hs_begin" ELSE "log_begin"

\* DialTLSContext, lines 325-328: net.SplitHostPort
DialTLSContext(a) ==
    /\ pc = "idle"
    /\ calls < MaxCalls
    /\ entry' = "dial"
    /\ LET s == SplitHostPort(a) IN
         IF s.err # "nil"
         THEN /\ ret' = [NilRet EXCEPT !.err = s.err]
              /\ pc' = "done"
              /\ hostport' = [host |-> "", port |-> ""]
         ELSE /\ ret' = NilRet
              /\ pc' = "dial_dial"
              /\ hostport' = [host |-> s.host, port |-> s.port]
    /\ UNCHANGED <<configs, owned, dConfig, hKind, hTimeout, conn, now, hsIn, hsCfg,
                   hsStart, tlsCfg, pending, innerRet, hsRet, panicked, calls,
                   innerCalls, logs>>
    /\ UNCHANGED notTLS

\* DialTLSContext, lines 329-332: d.Dialer.DialContext
DialContext ==
    /\ pc = "dial_dial"
    /\ \E ok \in BOOLEAN :
         IF ok
         THEN /\ conn' = NewConn
              /\ pc' = "dial_config"
              /\ ret' = ret
         ELSE /\ conn' = conn
              /\ pc' = "done"
              /\ ret' = [NilRet EXCEPT !.err = "connection refused"]
    /\ UNCHANGED <<configs, owned, dConfig, hKind, hTimeout, now, entry, hostport,
                   hsIn, hsCfg, hsStart, tlsCfg, pending, innerRet, hsRet,
                   panicked, calls, innerCalls, logs>>
    /\ UNCHANGED notTLS

\* DialTLSContext, lines 333-334: d.config(host, port) and the call of the handshaker
DialConfig ==
    /\ pc = "dial_config"
    /\ configs' = configHeap(configs, dConfig, hostport.host, hostport.port)
    /\ hsIn' = Len(configs) + 1
    /\ pc' = HandshakerEntry
    /\ UNCHANGED <<owned, dConfig, hKind, hTimeout, conn, now, entry, hostport,
                   hsCfg, hsStart, tlsCfg, pending, innerRet, hsRet, ret,
                   panicked, calls, innerCalls, logs>>
    /\ UNCHANGED notTLS

\* a caller invokes the handshaker itself, on its own connection and config
CallHandshake ==
    /\ pc = "idle"
    /\ calls < MaxCalls
    /\ entry' = "direct"
    /\ conn' = NewConn
    /\ \E c \in OptionalConfigs :
         IF c = <<>>
         THEN /\ hsIn' = NilPtr
              /\ UNCHANGED <<configs, owned>>
         ELSE /\ configs' = Append(configs, c[1])
              /\ owned' = owned \cup {Len(configs) + 1}
              /\ hsIn' = Len(configs) + 1
    /\ pc' = HandshakerEntry
    /\ UNCHANGED <<dConfig, hKind, hTimeout, now, hostport, hsCfg, hsStart, tlsCfg,
                   pending, innerRet, hsRet, ret, panicked, calls, innerCalls, logs>>
    /\ UNCHANGED notTLS

\* tlsHandshakerLogger.Handshake, lines 292-295: the first Debugf, then the wrapped call
LoggerBegin ==
    /\ pc = "log_begin"
    /\ IF hsIn = NilPtr
       THEN \* config.ServerName on a nil config
            /\ panicked' = TRUE
            /\ pc' = "done"
            /\ UNCHANGED <<logs, innerCalls>>
       ELSE /\ logs' = logs + 1
            /\ innerCalls' = innerCalls + 1
            /\ pc' = IF hKind = "logger_mock" THEN "mock" ELSE "hs_begin"
            /\ UNCHANGED panicked
    /\ UNCHANGED <<configs, owned, dConfig, hKind, hTimeout, conn, now, entry,
                   hostport, hsIn, hsCfg, hsStart, tlsCfg, pending, innerRet,
                   hsRet, ret, calls>>
    /\ UNCHANGED notTLS

\* tlsHandshakerConfigurable.Handshake, lines 249-254: the defer and SetDeadline
HsSetDeadline ==
    /\ pc = "hs_begin"
    /\ hsStart' = now
    /\ conn' = [conn EXCEPT !.deadline = now + EffectiveTimeout(hTimeout)]
    /\ hsCfg' = hsIn
    /\ pc' = "hs_rootcas"
    /\ UNCHANGED <<configs, owned, dConfig, hKind, hTimeout, now, entry, hostport,
                   hsIn, tlsCfg, pending, innerRet, hsRet, ret, panicked, calls,
                   innerCalls, logs>>
    /\ UNCHANGED notTLS

\* tlsHandshakerConfigurable.Handshake, lines 255-258: the RootCAs default
HsRootCAs ==
    /\ pc = "hs_rootcas"
    /\ IF hsCfg = NilPtr
       THEN \* config.RootCAs on a nil config: the deferred call still runs
            /\ panicked' = TRUE
            /\ pc' = "hs_defer"
            /\ UNCHANGED <<configs, hsCfg>>
       ELSE /\ configs' = RootCAsHeap(configs, hsCfg)
            /\ hsCfg' = RootCAsPtr(configs, hsCfg)
            /\ pc' = "hs_tls"
            /\ UNCHANGED panicked
    /\ UNCHANGED <<owned, dConfig, hKind, hTimeout, conn, now, entry, hostport,
                   hsIn, hsStart, tlsCfg, pending, innerRet, hsRet, ret, calls,
                   innerCalls, logs>>
    /\ UNCHANGED notTLS

\* tlsHandshakerConfigurable.Handshake, lines 259-263: newConn and tlsconn.Handshake();
\* the handshake cannot succeed once the deadline has passed
HsUnderlying ==
    /\ pc = "hs_tls"
    /\ tlsCfg' = hsCfg
    /\ \E e \in 0..MaxElapsed, out \in {"ok", TimeoutError} \cup HandshakeErrors :
         /\ now' = now + e
         /\ out = "ok" => now + e < conn.deadline
         /\ out = TimeoutError => now + e >= conn.deadline
         /\ pending' = IF out = "ok"
                       THEN [conn |-> "tlsconn", state |-> "negotiated", err |-> "nil"]
                       ELSE [conn |-> "nil", state |-> "empty", err |-> out]
    /\ pc' = "hs_defer"
    /\ UNCHANGED <<configs, owned, dConfig, hKind, hTimeout, conn, entry, hostport,
                   hsIn, hsCfg, hsStart, innerRet, hsRet, ret, panicked, calls,
                   innerCalls, logs>>
    /\ UNCHANGED notTLS

\* tlsHandshakerConfigurable.Handshake returns: the deferred SetDeadline runs first
HsReturn ==
    /\ pc = "hs_defer"
    /\ conn' = [conn EXCEPT !.deadline = DeferredDeadline(conn, pending)]
    /\ IF panicked
       THEN /\ pc' = "done"
            /\ UNCHANGED <<innerRet, hsRet, ret>>
       ELSE /\ innerRet' = pending
            /\ IF hKind = "configurable"
               THEN /\ hsRet' = pending
                    /\ pc' = IF entry = "dial" THEN "dial_end" ELSE "done"
                    /\ ret' = IF entry = "dial" THEN ret ELSE pending
               ELSE /\ pc' = "log_end"
                    /\ UNCHANGED <<hsRet, ret>>
    /\ UNCHANGED <<configs, owned, dConfig, hKind, hTimeout, now, entry, hostport,
                   hsIn, hsCfg, hsStart, tlsCfg, pending, panicked, calls,
                   innerCalls, logs>>
    /\ UNCHANGED notTLS

\* a wrapped TLSHandshaker other than ours: any values, the connection untouched
MockHandshake ==
    /\ pc = "mock"
    /\ \E r \in RetValues : innerRet' = r
    /\ pc' = "log_end"
    /\ UNCHANGED <<configs, owned, dConfig, hKind, hTimeout, conn, now, entry,
                   hostport, hsIn, hsCfg, hsStart, tlsCfg, pending, hsRet, ret,
                   panicked, calls, innerCalls, logs>>
    /\ UNCHANGED notTLS

\* tlsHandshakerLogger.Handshake, lines 296-308: the second Debugf and the return
LoggerEnd ==
    /\ pc = "log_end"
    /\ logs' = logs + 1
    /\ hsRet' = LoggerReturn(innerRet)
    /\ pc' = IF entry = "dial" THEN "dial_end" ELSE "done"
    /\ ret' = IF entry = "dial" THEN ret ELSE LoggerReturn(innerRet)
    /\ UNCHANGED <<configs, owned, dConfig, hKind, hTimeout, conn, now, entry,
                   hostport, hsIn, hsCfg, hsStart, tlsCfg, pending, innerRet,
                   panicked, calls, innerCalls>>
    /\ UNCHANGED notTLS

\* DialTLSContext, lines 335-339: close on failure, return
DialEnd ==
    /\ pc = "dial_end"
    /\ conn' = DialClose(conn, hsRet)
    /\ ret' = DialReturn(hsRet)
    /\ pc' = "done"
    /\ UNCHANGED <<configs, owned, dConfig, hKind, hTimeout, now, entry, hostport,
                   hsIn, hsCfg, hsStart, tlsCfg, pending, innerRet, hsRet,
                   panicked, calls, innerCalls, logs>>
    /\ UNCHANGED notTLS

\* the caller has the result; the locals of the call are gone, and so are the
\* configs the call allocated (only the dialer's template stays referenced)
Return ==
    /\ pc = "done"
    /\ pc' = "idle"
    /\ calls' = calls + 1
    /\ FreshFrame
    /\ entry' = "none"
    /\ conn' = NoConn
    /\ hostport' = [host |-> "", port |-> ""]
    /\ hsIn' = NilPtr
    /\ ret' = NilRet
    /\ configs' = IF dConfig = NilPtr THEN <<>> ELSE <<configs[dConfig]>>
    /\ owned' = IF dConfig = NilPtr THEN {} ELSE {dConfig}
    /\ UNCHANGED <<dConfig, hKind, hTimeout, now>>
    /\ UNCHANGED notTLS

NextTLS ==
    \/ \E a \in Addresses : DialTLSContext(a)
    \/ DialContext
    \/ DialConfig
    \/ CallHandshake
    \/ LoggerBegin
    \/ HsSetDeadline
    \/ HsRootCAs
    \/ HsUnderlying
    \/ HsReturn
    \/ MockHandshake
    \/ LoggerEnd
    \/ DialEnd
    \/ Return

----------------------------------------------------------------------------
(* DNS decoder: values                                                     *)

RcodeSuccess == 0
RcodeNameError == 3
RcodeRefused == 5
TypeA == 1
TypeAAAA == 28

ErrOODNSNoSuchHost == "ooniresolver: no such host"
ErrOODNSRefused == "ooniresolver: refused"
ErrOODNSMisbehaving == "ooniresolver: misbehaving"
ErrOODNSNoAnswer == "ooniresolver: no answer"

\* net.IP values and their String() form
IPv4s == {<<8, 8, 8, 8>>, <<1, 1, 1, 1>>}
IPv6s == {<<0, 0, 0, 0, 0, 0, 0, 1>>}
IPString(ip) == [text |-> ip]

\* the value lists of dns.HTTPS records: SVCBAlpn, SVCBIPv4Hint, SVCBIPv6Hint, SVCBPort
Alpn(l) == [key |-> "alpn", Alpn |-> l, Hint |-> <<>>]
IPv4Hint(h) == [key |-> "ipv4hint", Alpn |-> <<>>, Hint |-> h]
IPv6Hint(h) == [key |-> "ipv6hint", Alpn |-> <<>>, Hint |-> h]
SvcPort == [key |-> "port", Alpn |-> <<>>, Hint |-> <<>>]

HTTPSValues ==
    { <<>>,
      <<Alpn(<<"h2">>)>>,
      <<Alpn(<<"h3", "h2">>), SvcPort, Alpn(<<"h2">>)>>,
      <<Alpn(<<"h2">>), Alpn(<<>>)>>,
      <<IPv4Hint(<<<<8, 8, 8, 8>>, <<1, 1, 1, 1>>>>), Alpn(<<"h3">>),
        IPv6Hint(<<<<0, 0, 0, 0, 0, 0, 0, 1>>>>)>>,
      <<IPv4Hint(<<<<1, 1, 1, 1>>>>)>>,
      <<IPv6Hint(<<<<0, 0, 0, 0, 0, 0, 0, 1>>>>), IPv4Hint(<<<<8, 8, 8, 8>>>>)>> }

\* the resource records of an answer section
RRs ==
    {[type |-> "A", ip |-> i, Value |-> <<>>] : i \in IPv4s}
    \cup {[type |-> "AAAA", ip |-> i, Value |-> <<>>] : i \in IPv6s}
    \cup {[type |-> "CNAME", ip |-> <<>>, Value |-> <<>>]}
    \cup {[type |-> "HTTPS", ip |-> <<>>, Value |-> v] : v \in HTTPSValues}

Answers == UNION {[1..n -> RRs] : n \in 0..MaxAnswers}

\* raw replies: bytes dns.Msg.Unpack rejects with some error, or the wire form
\* of a message with a status and an answer section
UnpackErrors == {"dns: overflow unpacking uint16", "dns: bad rdlength"}
Rcodes == {RcodeSuccess, 2, RcodeNameError, RcodeRefused}

CorruptData == [corrupt : UnpackErrors, Rcode : {RcodeSuccess}, Answer : {<<>>}]
WireData == [corrupt : {""}, Rcode : Rcodes, Answer : Answers]
NoData == [corrupt |-> "", Rcode |-> RcodeSuccess, Answer |-> <<>>]

QTypes == {TypeA, TypeAAAA, 65}

NilSlice == [nil |-> TRUE, items |-> <<>>]
HTTPSSvcZero == [nil |-> FALSE, ALPN |-> <<>>, IPv4 |-> <<>>, IPv6 |-> <<>>]
NilHTTPSSvc == [nil |-> TRUE, ALPN |-> <<>>, IPv4 |-> <<>>, IPv6 |-> <<>>]
NoOut == [addrs |-> NilSlice, https |-> NilHTTPSSvc, err |-> "nil"]

----------------------------------------------------------------------------
(* DNS decoder: the code                                                   *)

\* reply.Unpack(data)
Unpack(data) ==
    IF data.corrupt # ""
    THEN [err |-> data.corrupt, Rcode |-> RcodeSuccess, Answer |-> <<>>]
    ELSE [err |-> "nil", Rcode |-> data.Rcode, Answer |-> data.Answer]

parseReplyRefusedAsMisbehaving(data) ==
    LET reply == Unpack(data) IN
    IF reply.err # "nil" THEN [nil |-> TRUE, err |-> reply.err, Answer |-> <<>>]
    ELSE CASE reply.Rcode = RcodeSuccess ->
                [nil |-> FALSE, err |-> "nil", Answer |-> reply.Answer]
           [] reply.Rcode = RcodeNameError ->
                [nil |-> TRUE, err |-> ErrOODNSNoSuchHost, Answer |-> <<>>]
           [] OTHER ->
                [nil |-> TRUE, err |-> ErrOODNSMisbehaving, Answer |-> <<>>]

parseReplyIgnoresUnpackError(data) ==
    LET reply == Unpack(data) IN
    CASE reply.Rcode = RcodeSuccess ->
            [nil |-> FALSE, err |-> "nil", Answer |-> reply.Answer]
      [] reply.Rcode = RcodeNameError ->
            [nil |-> TRUE, err |-> ErrOODNSNoSuchHost, Answer |-> <<>>]
      [] reply.Rcode = RcodeRefused ->
            [nil |-> TRUE, err |-> ErrOODNSRefused, Answer |-> <<>>]
      [] OTHER ->
            [nil |-> TRUE, err |-> ErrOODNSMisbehaving, Answer |-> <<>>]

\* DNSDecoderMiekg.parseReply
parseReply(data) ==
    LET reply == Unpack(data) IN
    IF reply.err # "nil" THEN [nil |-> TRUE, err |-> reply.err, Answer |-> <<>>]
    ELSE CASE reply.Rcode = RcodeSuccess ->
                [nil |-> FALSE, err |-> "nil", Answer |-> reply.Answer]
           [] reply.Rcode = RcodeNameError ->
                [nil |-> TRUE, err |-> ErrOODNSNoSuchHost, Answer |-> <<>>]
           [] reply.Rcode = RcodeRefused ->
                [nil |-> TRUE, err |-> ErrOODNSRefused, Answer |-> <<>>]
           [] OTHER ->
                [nil |-> TRUE, err |-> ErrOODNSMisbehaving, Answer |-> <<>>]

\* for _, ip := range extv.Hint { out = append(out, ip.String()) }
RECURSIVE AppendHints(_, _, _)
AppendHints(out, hint, i) ==
    IF i > Len(hint) THEN out
    ELSE AppendHints(Append(out, IPString(hint[i])), hint, i + 1)

\* DecodeHTTPS: for _, v := range avalue.Value
RECURSIVE ValueLoopFirstALPN(_, _, _)
ValueLoopFirstALPN(out, value, i) ==
    IF i > Len(value) THEN out
    ELSE LET v == value[i] IN
         ValueLoopFirstALPN(
            CASE v.key = "alpn" ->
                    IF out.ALPN = <<>> THEN [out EXCEPT !.ALPN = v.Alpn] ELSE out
              [] v.key = "ipv4hint" -> [out EXCEPT !.IPv4 = AppendHints(@, v.Hint, 1)]
              [] v.key = "ipv6hint" -> [out EXCEPT !.IPv6 = AppendHints(@, v.Hint, 1)]
              [] OTHER -> out,
            value, i + 1)

RECURSIVE ValueLoop(_, _, _)
ValueLoop(out, value, i) ==
    IF i > Len(value) THEN out
    ELSE LET v == value[i] IN
         ValueLoop(
            CASE v.key = "alpn" -> [out EXCEPT !.ALPN = v.Alpn]
              [] v.key = "ipv4hint" -> [out EXCEPT !.IPv4 = AppendHints(@, v.Hint, 1)]
              [] v.key = "ipv6hint" -> [out EXCEPT !.IPv6 = AppendHints(@, v.Hint, 1)]
              [] OTHER -> out,
            value, i + 1)

\* DecodeHTTPS: for _, answer := range reply.Answer
RECURSIVE AnswerLoopHTTPS(_, _, _)
AnswerLoopHTTPS(out, answer, i) ==
    IF i > Len(answer) THEN out
    ELSE AnswerLoopHTTPS(
            IF answer[i].type = "HTTPS" THEN ValueLoop(out, answer[i].Value, 1) ELSE out,
            answer, i + 1)

\* DNSDecoderMiekg.DecodeHTTPS
DecodeHTTPS(data) ==
    LET r == parseReply(data) IN
    IF r.err # "nil" THEN [https |-> NilHTTPSSvc, err |-> r.err]
    ELSE LET out == AnswerLoopHTTPS(HTTPSSvcZero, r.Answer, 1) IN
         IF Len(out.ALPN) <= 0 THEN [https |-> NilHTTPSSvc, err |-> ErrOODNSNoAnswer]
         ELSE [https |-> out, err |-> "nil"]

\* DecodeLookupHost: for _, answer := range reply.Answer
RECURSIVE AnswerLoopAnyFamily(_, _, _, _)
AnswerLoopAnyFamily(addrs, qtype, answer, i) ==
    IF i > Len(answer) THEN addrs
    ELSE AnswerLoopAnyFamily(
            IF qtype \in {TypeA, TypeAAAA} /\ answer[i].type \in {"A", "AAAA"}
            THEN [nil |-> FALSE, items |-> Append(addrs.items, IPString(answer[i].ip))]
            ELSE addrs,
            qtype, answer, i + 1)

RECURSIVE AnswerLoopLookupHost(_, _, _, _)
AnswerLoopLookupHost(addrs, qtype, answer, i) ==
    IF i > Len(answer) THEN addrs
    ELSE AnswerLoopLookupHost(
            CASE qtype = TypeA /\ answer[i].type = "A" ->
                    [nil |-> FALSE, items |-> Append(addrs.items, IPString(answer[i].ip))]
              [] qtype = TypeAAAA /\ answer[i].type = "AAAA" ->
                    [nil |-> FALSE, items |-> Append(addrs.items, IPString(answer[i].ip))]
              [] OTHER -> addrs,
            qtype, answer, i + 1)

\* DNSDecoderMiekg.DecodeLookupHost
DecodeLookupHost(qtype, data) ==
    LET r == parseReply(data) IN
    IF r.err # "nil" THEN [addrs |-> NilSlice, err |-> r.err]
    ELSE LET addrs == AnswerLoopLookupHost(NilSlice, qtype, r.Answer, 1) IN
         IF Len(addrs.items) <= 0 THEN [addrs |-> NilSlice, err |-> ErrOODNSNoAnswer]
         ELSE [addrs |-> addrs, err |-> "nil"]

----------------------------------------------------------------------------
(* DNS decoder: one call on one reply                                      *)

InitDNS ==
    /\ dnsData \in CorruptData \cup WireData
    /\ dnsQtype \in QTypes
    /\ dnsOp = "none"
    /\ dnsOut = NoOut

CallDecodeLookupHost ==
    /\ dnsOp = "none"
    /\ dnsOp' = "DecodeLookupHost"
    /\ LET r == DecodeLookupHost(dnsQtype, dnsData) IN
         dnsOut' = [addrs |-> r.addrs, https |-> NilHTTPSSvc, err |-> r.err]
    /\ UNCHANGED <<dnsData, dnsQtype>>
    /\ UNCHANGED notDNS

CallDecodeHTTPS ==
    /\ dnsOp = "none"
    /\ dnsOp' = "DecodeHTTPS"
    /\ LET r == DecodeHTTPS(dnsData) IN
         dnsOut' = [addrs |-> NilSlice, https |-> r.https, err |-> r.err]
    /\ UNCHANGED <<dnsData, dnsQtype>>
    /\ UNCHANGED notDNS

NextDNS ==
    \/ CallDecodeLookupHost
    \/ CallDecodeHTTPS

----------------------------------------------------------------------------
(* ConfigureTLSVersion                                                     *)

VersionTLS10 == 769
VersionTLS11 == 770
VersionTLS12 == 771
VersionTLS13 == 772

ErrInvalidTLSVersion == "invalid TLS version"

Versions == {0, VersionTLS10, VersionTLS11, VersionTLS12, VersionTLS13}
VersionLabels ==
    {"TLSv1.3", "TLSv1.2", "TLSv1.1", "TLSv1.0", "TLSv1", "", "TLSv1.4", "SSLv3"}

\* ConfigureTLSVersion: the config after the call
ConfigureTLSVersionWrongMax(c, version) ==
    CASE version = "TLSv1.3" ->
            [c EXCEPT !.MinVersion = VersionTLS13, !.MaxVersion = VersionTLS13]
      [] version = "TLSv1.2" ->
            [c EXCEPT !.MinVersion = VersionTLS12, !.MaxVersion = VersionTLS12]
      [] version = "TLSv1.1" ->
            [c EXCEPT !.MinVersion = VersionTLS11, !.MaxVersion = VersionTLS12]
      [] version \in {"TLSv1.0", "TLSv1"} ->
            [c EXCEPT !.MinVersion = VersionTLS10, !.MaxVersion = VersionTLS10]
      [] OTHER -> c

ConfigureTLSVersionConfig(c, version) ==
    CASE version = "TLSv1.3" ->
            [c EXCEPT !.MinVersion = VersionTLS13, !.MaxVersion = VersionTLS13]
      [] version = "TLSv1.2" ->
            [c EXCEPT !.MinVersion = VersionTLS12, !.MaxVersion = VersionTLS12]
      [] version = "TLSv1.1" ->
            [c EXCEPT !.MinVersion = VersionTLS11, !.MaxVersion = VersionTLS11]
      [] version \in {"TLSv1.0", "TLSv1"} ->
            [c EXCEPT !.MinVersion = VersionTLS10, !.MaxVersion = VersionTLS10]
      [] OTHER -> c

\* ConfigureTLSVersion: the error it returns
ConfigureTLSVersionErr(version) ==
    IF version \in {"TLSv1.3", "TLSv1.2", "TLSv1.1", "TLSv1.0", "TLSv1", ""}
    THEN "nil"
    ELSE ErrInvalidTLSVersion

InitVer ==
    /\ verCfg \in [MinVersion : Versions, MaxVersion : Versions, ServerName : {"sni.example"}]
    /\ verPrev = verCfg
    /\ verLabel = "none"
    /\ verPrevLabel = "none"
    /\ verErr = "nil"
    /\ verCalls = 0

ConfigureTLSVersion(version) ==
    /\ verCalls < MaxApply
    /\ verCalls' = verCalls + 1
    /\ verPrev' = verCfg
    /\ verPrevLabel' = verLabel
    /\ verLabel' = version
    /\ verCfg' = ConfigureTLSVersionConfig(verCfg, version)
    /\ verErr' = ConfigureTLSVersionErr(version)
    /\ UNCHANGED notVer

NextVer == \E version \in VersionLabels : ConfigureTLSVersion(version)

----------------------------------------------------------------------------
(* psiphon tunnel: values                                                  *)

\* the local ports a started tunnel may be assigned
SOCKSProxyPorts == {1080, 9050}

\* const testdirname
testdirname == "oonipsiphon"

\* config.WorkDir as the caller gives it, and sess.TempDir()
WorkDirs == {"", "/custom"}
TempDir == "/tmp/session"

\* a nil *psiphonTunnel, and the zero value &psiphonTunnel{}
AbsentHandle == [nil |-> TRUE, tunnel |-> NilPtr, duration |-> 0]
ZeroHandle == [nil |-> FALSE, tunnel |-> NilPtr, duration |-> 0]

\* a nil *url.URL, and a zero time.Duration
NilURL == <<>>
NoTunOut == [url |-> NilURL, duration |-> 0]

ErrContextCanceled == "context canceled"

\* the error each dependency fails with
DependencyError(op) ==
    CASE op = "FetchPsiphonConfig" -> "fetch failed"
      [] op = "RemoveAll" -> "removeall failed"
      [] op = "MkdirAll" -> "mkdirall failed"
      [] OTHER -> "start failed"

----------------------------------------------------------------------------
(* psiphon tunnel: pure parts of the code                                  *)

\* psiphonStart, lines 71-75: whether the select takes the ctx.Done() case
ContextCheckOmitted(cancelled) == FALSE

ContextDone(cancelled) == cancelled

\* psiphonStart, lines 79-81, and makeworkingdir, line 58
WorkDirOf(dir) == IF dir = "" THEN TempDir ELSE dir
workdir(dir) == <<dir, "/", testdirname>>

\* psiphonStart and makeworkingdir: the statement that follows dependency op,
\* given whether op succeeded; "idle" is a return
StepAfterIgnoresMkdirError(op, ok) ==
    CASE op = "FetchPsiphonConfig" -> IF ok THEN "removeall" ELSE "idle"
      [] op = "RemoveAll" -> IF ok THEN "mkdirall" ELSE "idle"
      [] op = "MkdirAll" -> "start"
      [] OTHER -> "idle"

StepAfter(op, ok) ==
    CASE op = "FetchPsiphonConfig" -> IF ok THEN "removeall" ELSE "idle"
      [] op = "RemoveAll" -> IF ok THEN "mkdirall" ELSE "idle"
      [] op = "MkdirAll" -> IF ok THEN "start" ELSE "idle"
      [] OTHER -> "idle"

\* psiphonTunnel.SOCKS5ProxyURL, lines 109-113: the URL for a port
SOCKS5URL(port) == <<"socks5", "://", "127.0.0.1", ":", ToString(port)>>

\* psiphonTunnel.BootstrapTime
BootstrapTime(t) == IF ~t.nil THEN t.duration ELSE 0

----------------------------------------------------------------------------
(* psiphon tunnel: the state machine                                       *)

InitTun ==
    /\ tunPc = "idle"
    /\ tunCancelled = FALSE
    /\ tunWorkDir = ""
    /\ tunTrace = <<>>
    /\ tunDir \in {"stale", "absent"}
    /\ tunnels = <<>>
    /\ tunConfig = "none"
    /\ tunRet = [handle |-> AbsentHandle, err |-> "nil"]
    /\ tunHandle \in {AbsentHandle, ZeroHandle}
    /\ tunOp = "none"
    /\ tunOut = NoTunOut
    /\ tunCrashed = FALSE
    /\ tunStarts = 0
    /\ tunOps = 0

\* psiphonStart returns nil, err
TunReturnError(err) ==
    /\ tunRet' = [handle |-> AbsentHandle, err |-> err]
    /\ tunHandle' = AbsentHandle

\* psiphonStart, lines 69-81: the cancellation check and the defaults
psiphonStart(cancelled, dir) ==
    /\ tunPc = "idle"
    /\ ~tunCrashed
    /\ tunStarts < MaxStarts
    /\ tunStarts' = tunStarts + 1
    /\ tunCancelled' = cancelled
    /\ tunTrace' = <<>>
    /\ tunConfig' = "none"
    /\ IF ContextDone(cancelled)
       THEN /\ TunReturnError(ErrContextCanceled)
            /\ tunPc' = "idle"
            /\ tunWorkDir' = dir
       ELSE /\ tunPc' = "fetch"
            /\ tunWorkDir' = WorkDirOf(dir)
            /\ UNCHANGED <<tunRet, tunHandle>>
    /\ UNCHANGED <<tunDir, tunnels, tunOp, tunOut, tunCrashed, tunOps>>
    /\ UNCHANGED notTun

\* psiphonStart, lines 82-85: sess.FetchPsiphonConfig
TunFetchConfig ==
    /\ tunPc = "fetch"
    /\ \E ok \in BOOLEAN :
         /\ tunTrace' = Append(tunTrace, [op |-> "FetchPsiphonConfig", ok |-> ok, path |-> <<>>])
         /\ tunPc' = StepAfter("FetchPsiphonConfig", ok)
         /\ IF ok
            THEN tunConfig' = "fetched" /\ UNCHANGED <<tunRet, tunHandle>>
            ELSE tunConfig' = tunConfig
                 /\ TunReturnError(DependencyError("FetchPsiphonConfig"))
    /\ UNCHANGED <<tunCancelled, tunWorkDir, tunDir, tunnels, tunOp, tunOut,
                   tunCrashed, tunStarts, tunOps>>
    /\ UNCHANGED notTun

\* makeworkingdir, lines 58-61: RemoveAll(workdir)
TunRemoveAll ==
    /\ tunPc = "removeall"
    /\ \E ok \in BOOLEAN :
         /\ tunTrace' = Append(tunTrace, [op |-> "RemoveAll", ok |-> ok,
                                        path |-> workdir(tunWorkDir)])
         /\ tunPc' = StepAfter("RemoveAll", ok)
         /\ IF ok
            THEN tunDir' = "absent" /\ UNCHANGED <<tunRet, tunHandle>>
            ELSE tunDir' = tunDir /\ TunReturnError(DependencyError("RemoveAll"))
    /\ UNCHANGED <<tunCancelled, tunWorkDir, tunnels, tunConfig, tunOp, tunOut,
                   tunCrashed, tunStarts, tunOps>>
    /\ UNCHANGED notTun

\* makeworkingdir, lines 62-65: MkdirAll(workdir, 0700)
TunMkdirAll ==
    /\ tunPc = "mkdirall"
    /\ \E ok \in BOOLEAN :
         /\ tunTrace' = Append(tunTrace, [op |-> "MkdirAll", ok |-> ok,
                                        path |-> workdir(tunWorkDir)])
         /\ tunPc' = StepAfter("MkdirAll", ok)
         /\ IF ok
            THEN tunDir' = (IF tunDir = "absent" THEN "empty" ELSE tunDir)
                 /\ UNCHANGED <<tunRet, tunHandle>>
            ELSE tunDir' = tunDir /\ TunReturnError(DependencyError("MkdirAll"))
    /\ UNCHANGED <<tunCancelled, tunWorkDir, tunnels, tunConfig, tunOp, tunOut,
                   tunCrashed, tunStarts, tunOps>>
    /\ UNCHANGED notTun

\* psiphonStart, lines 90-96: Dependencies.Start, timed, and the handle
TunStart ==
    /\ tunPc = "start"
    /\ \E ok \in BOOLEAN, port \in SOCKSProxyPorts, elapsed \in 0..MaxBootstrap :
         /\ tunTrace' = Append(tunTrace, [op |-> "Start", ok |-> ok,
                                        path |-> workdir(tunWorkDir)])
         /\ tunPc' = StepAfter("Start", ok)
         /\ IF ok
            THEN /\ tunnels' = Append(tunnels, [state |-> "running", port |-> port,
                                                bootstrap |-> elapsed, stops |-> 0,
                                                config |-> tunConfig])
                 /\ tunDir' = "inuse"
                 /\ tunRet' = [handle |-> [nil |-> FALSE, tunnel |-> Len(tunnels) + 1,
                                           duration |-> elapsed],
                               err |-> "nil"]
                 /\ tunHandle' = [nil |-> FALSE, tunnel |-> Len(tunnels) + 1,
                                  duration |-> elapsed]
            ELSE /\ TunReturnError(DependencyError("Start"))
                 /\ UNCHANGED <<tunnels, tunDir>>
    /\ UNCHANGED <<tunCancelled, tunWorkDir, tunConfig, tunOp, tunOut, tunCrashed,
                   tunStarts, tunOps>>
    /\ UNCHANGED notTun

\* a method of the handle is called between two psiphonStart calls
TunMethodCall(op) ==
    /\ tunPc = "idle"
    /\ ~tunCrashed
    /\ tunOps < MaxOps
    /\ tunOps' = tunOps + 1
    /\ tunOp' = op
    /\ UNCHANGED <<tunPc, tunCancelled, tunWorkDir, tunTrace, tunDir, tunConfig,
                   tunRet, tunHandle, tunStarts>>
    /\ UNCHANGED notTun

\* psiphonTunnel.Stop, lines 100-104.  With a nil t.tunnel, line 102 calls
\* clientlib's Stop on a nil receiver: the library decides whether that panics.
Stop ==
    /\ TunMethodCall("Stop")
    /\ tunOut' = NoTunOut
    /\ IF ~tunHandle.nil
       THEN IF tunHandle.tunnel = NilPtr
            THEN tunCrashed' \in BOOLEAN /\ UNCHANGED tunnels
            ELSE /\ tunnels' = [tunnels EXCEPT ![tunHandle.tunnel].state = "stopped",
                                               ![tunHandle.tunnel].stops = @ + 1]
                 /\ UNCHANGED tunCrashed
       ELSE UNCHANGED <<tunnels, tunCrashed>>

\* psiphonTunnel.SOCKS5ProxyURL, lines 107-116
SOCKS5ProxyURL ==
    /\ TunMethodCall("SOCKS5ProxyURL")
    /\ UNCHANGED tunnels
    /\ IF ~tunHandle.nil
       THEN IF tunHandle.tunnel = NilPtr
            THEN \* t.tunnel.SOCKSProxyPort on a nil t.tunnel
                 tunCrashed' = TRUE /\ tunOut' = NoTunOut
            ELSE /\ tunOut' = [url |-> SOCKS5URL(tunnels[tunHandle.tunnel].port),
                               duration |-> 0]
                 /\ UNCHANGED tunCrashed
       ELSE tunOut' = NoTunOut /\ UNCHANGED tunCrashed

\* psiphonTunnel.BootstrapTime, lines 119-124
CallBootstrapTime ==
    /\ TunMethodCall("BootstrapTime")
    /\ tunOut' = [url |-> NilURL, duration |-> BootstrapTime(tunHandle)]
    /\ UNCHANGED <<tunnels, tunCrashed>>

NextTun ==
    \/ \E cancelled \in BOOLEAN, dir \in WorkDirs : psiphonStart(cancelled, dir)
    \/ TunFetchConfig
    \/ TunRemoveAll
    \/ TunMkdirAll
    \/ TunStart
    \/ Stop
    \/ SOCKS5ProxyURL
    \/ CallBootstrapTime

TunAtRest ==
    /\ tunPc = "idle"
    /\ tunCancelled = FALSE
    /\ tunWorkDir = ""
    /\ tunTrace = <<>>
    /\ tunDir = "absent"
    /\ tunnels = <<>>
    /\ tunConfig = "none"
    /\ tunRet = [handle |-> AbsentHandle, err |-> "nil"]
    /\ tunHandle = AbsentHandle
    /\ tunOp = "none"
    /\ tunOut = NoTunOut
    /\ tunCrashed = FALSE
    /\ tunStarts = 0
    /\ tunOps = 0

----------------------------------------------------------------------------
(* saverUDPConn: values                                                    *)

\* the goroutines that use connections sharing one saver
Goroutines == {1, 2}

\* a nil net.Addr, and the peers; an address is <<>> or <<its String()>>
NilAddr == <<>>
PeerAddrs == {<<"10.0.0.1:443">>}

\* the datagram a caller sends, and the buffer a caller receives into
Payloads == {<<"a", "b">>}
ReadBuffers == {<<"_", "_">>}

WriteToOperation == "write_to"
ReadFromOperation == "read_from"

\* what c.UDPLikeConn.WriteTo and c.UDPLikeConn.ReadFrom may return for a
\* buffer of length len: a success moving up to len bytes, or a failure
\* (for ReadFrom: one without a peer address)
WriteToResults(len) ==
    [n : 0..len, addr : {NilAddr}, err : {"nil"}]
      \cup {[n |-> 0, addr |-> NilAddr, err |-> "EIO"]}
ReadFromResults(len) ==
    [n : 0..len, addr : PeerAddrs, err : {"nil"}]
      \cup {[n |-> 0, addr |-> NilAddr, err |-> "EIO"]}

\* the frame of a goroutine that is in no call
IdleFrame ==
    [pc |-> "idle", op |-> "none", buf |-> <<>>, addr |-> NilAddr,
     start |-> 0, stop |-> 0,
     inner |-> [n |-> 0, addr |-> NilAddr, err |-> "nil"],
     delegated |-> 0, written |-> 0,
     ret |-> [n |-> 0, addr |-> NilAddr, err |-> "nil"]]

----------------------------------------------------------------------------
(* saverUDPConn: pure parts of the code                                    *)

\* net.Addr.String() of a non-nil address
AddrString(addr) == addr[1]

\* saverUDPConn.safeAddrString
safeAddrString(addr) == IF addr # NilAddr THEN AddrString(addr) ELSE ""

\* the delegate's ReadFrom writes the first n bytes of b
Fill(b, n) == [i \in 1..Len(b) |-> IF i <= n THEN "r" ELSE b[i]]

\* ReadFrom, lines 60-63
ReadFromDataWholeBuffer(b, n) == b

ReadFromData(b, n) == IF n > 0 THEN SubSeq(b, 1, n) ELSE <<>>

\* WriteTo, lines 44-52: the event
WriteToEvent(p, addr, start, stop, inner) ==
    [Address |-> AddrString(addr),
     Data |-> SubSeq(p, 1, inner.n),
     Duration |-> stop - start,
     Err |-> inner.err,
     NumBytes |-> inner.n,
     Name |-> WriteToOperation,
     Time |-> stop]

\* ReadFrom, lines 64-72: the event
ReadFromEvent(b, start, stop, inner) ==
    [Address |-> safeAddrString(inner.addr),
     Data |-> ReadFromData(b, inner.n),
     Duration |-> stop - start,
     Err |-> inner.err,
     NumBytes |-> inner.n,
     Name |-> ReadFromOperation,
     Time |-> stop]

\* trace.Saver.Write: a thread-safe append to the saver's events
SaverWrite(events, ev) == Append(events, ev)

\* time.Now(): the clock never goes back
Now == {t \in {udpNow, udpNow + 1} : t <= MaxTime}

----------------------------------------------------------------------------
(* saverUDPConn: the state machine                                         *)

InitUDP ==
    /\ udpNow = 0
    /\ udpFrames = [g \in Goroutines |-> IdleFrame]
    /\ udpTrace = <<>>
    /\ udpOps = 0

\* the frame of a call that has read its start time
CallFrame(op, buf, addr, t) ==
    [IdleFrame EXCEPT !.pc = "delegate", !.op = op, !.buf = buf,
                      !.addr = addr, !.start = t]

\* saverUDPConn.WriteTo is called: line 41, start := time.Now()
WriteTo(g) ==
    /\ udpFrames[g].pc = "idle"
    /\ udpOps < MaxUDPOps
    /\ udpOps' = udpOps + 1
    /\ \E p \in Payloads, addr \in PeerAddrs, t \in Now :
         /\ udpNow' = t
         /\ udpFrames' = [udpFrames EXCEPT ![g] = CallFrame("WriteTo", p, addr, t)]
    /\ UNCHANGED udpTrace
    /\ UNCHANGED notUDP

\* saverUDPConn.ReadFrom is called: line 57, start := time.Now()
ReadFrom(g) ==
    /\ udpFrames[g].pc = "idle"
    /\ udpOps < MaxUDPOps
    /\ udpOps' = udpOps + 1
    /\ \E b \in ReadBuffers, t \in Now :
         /\ udpNow' = t
         /\ udpFrames' = [udpFrames EXCEPT ![g] = CallFrame("ReadFrom", b, NilAddr, t)]
    /\ UNCHANGED udpTrace
    /\ UNCHANGED notUDP

\* lines 42 and 58: the underlying connection's WriteTo or ReadFrom
UDPDelegate(g) ==
    LET f == udpFrames[g] IN
    /\ f.pc = "delegate"
    /\ \E r \in IF f.op = "WriteTo" THEN WriteToResults(Len(f.buf))
                                    ELSE ReadFromResults(Len(f.buf)) :
         udpFrames' = [udpFrames EXCEPT ![g] =
             [f EXCEPT !.pc = "stop", !.inner = r, !.delegated = @ + 1,
                       !.buf = IF f.op = "ReadFrom" THEN Fill(f.buf, r.n) ELSE @]]
    /\ UNCHANGED <<udpNow, udpTrace, udpOps>>
    /\ UNCHANGED notUDP

\* lines 43 and 59: stop := time.Now()
UDPStop(g) ==
    LET f == udpFrames[g] IN
    /\ f.pc = "stop"
    /\ \E t \in Now :
         /\ udpNow' = t
         /\ udpFrames' = [udpFrames EXCEPT ![g] = [f EXCEPT !.pc = "write", !.stop = t]]
    /\ UNCHANGED <<udpTrace, udpOps>>
    /\ UNCHANGED notUDP

\* lines 44-53 and 60-73: c.saver.Write(event) and the return
UDPWrite(g) ==
    LET f == udpFrames[g] IN
    /\ f.pc = "write"
    /\ udpTrace' = SaverWrite(udpTrace,
                      IF f.op = "WriteTo"
                      THEN WriteToEvent(f.buf, f.addr, f.start, f.stop, f.inner)
                      ELSE ReadFromEvent(f.buf, f.start, f.stop, f.inner))
    /\ udpFrames' = [udpFrames EXCEPT ![g] =
           [f EXCEPT !.pc = "returned", !.written = @ + 1, !.ret = f.inner]]
    /\ UNCHANGED <<udpNow, udpOps>>
    /\ UNCHANGED notUDP

\* the caller has the results; the goroutine is free for its next call
UDPReturn(g) ==
    /\ udpFrames[g].pc = "returned"
    /\ udpFrames' = [udpFrames EXCEPT ![g] = IdleFrame]
    /\ UNCHANGED <<udpNow, udpTrace, udpOps>>
    /\ UNCHANGED notUDP

NextUDP ==
    \E g \in Goroutines :
        \/ WriteTo(g)
        \/ ReadFrom(g)
        \/ UDPDelegate(g)
        \/ UDPStop(g)
        \/ UDPWrite(g)
        \/ UDPReturn(g)

UDPAtRest ==
    /\ udpNow = 0
    /\ udpFrames = [g \in Goroutines |-> IdleFrame]
    /\ udpTrace = <<>>
    /\ udpOps = 0

----------------------------------------------------------------------------
(* SerialResolver: the timeout counter                                     *)

\* the goroutines that look up names on one resolver
Lookups == {1, 2}

\* errors of the transport: &net.OpError{Err: errorsx.ETIMEDOUT, Op: "dial"},
\* and errors.New("mocked error")
ETIMEDOUT == "ETIMEDOUT"
MockedError == "mocked error"

\* what Txp.RoundTrip may return: a reply, or nil and an error
RoundTripResults ==
    {[reply |-> <<"reply">>, err |-> "nil"],
     [reply |-> <<>>, err |-> ETIMEDOUT],
     [reply |-> <<>>, err |-> MockedError]}

\* the frame of a goroutine that is in no round-trip
IdleTrip ==
    [pc |-> "idle", inner |-> [reply |-> <<>>, err |-> "nil"],
     ret |-> [reply |-> <<>>, err |-> "nil"]]

\* whether the resolver classifies the transport's error as a timeout
IsTimeoutAnyError(err) == err # "nil"

IsTimeout(err) == err = ETIMEDOUT

\* what the round-trip hands back: the reply, or nil and the transport's error
RoundTripReturn(inner) ==
    IF inner.err # "nil" THEN [reply |-> <<>>, err |-> inner.err] ELSE inner

InitRes ==
    /\ NumTimeouts = 0
    /\ resFrames = [g \in Lookups |-> IdleTrip]
    /\ resTimedOut = 0
    /\ resTrips = 0

\* a lookup has encoded its query and starts a round-trip
ResRoundTrip(g) ==
    /\ resFrames[g].pc = "idle"
    /\ resTrips < MaxRoundTrips
    /\ resTrips' = resTrips + 1
    /\ resFrames' = [resFrames EXCEPT ![g] = [IdleTrip EXCEPT !.pc = "transport"]]
    /\ UNCHANGED <<NumTimeouts, resTimedOut>>
    /\ UNCHANGED notRes

\* Txp.RoundTrip returns
ResTransport(g) ==
    /\ resFrames[g].pc = "transport"
    /\ \E r \in RoundTripResults :
         /\ resFrames' = [resFrames EXCEPT ![g] =
                [resFrames[g] EXCEPT !.pc = "classify", !.inner = r]]
         /\ resTimedOut' = resTimedOut + (IF r.err = ETIMEDOUT THEN 1 ELSE 0)
    /\ UNCHANGED <<NumTimeouts, resTrips>>
    /\ UNCHANGED notRes

\* the resolver classifies the error: NumTimeouts.Add(1), atomically, on a
\* timeout; then the round-trip returns
ResClassify(g) ==
    LET f == resFrames[g] IN
    /\ f.pc = "classify"
    /\ NumTimeouts' = IF IsTimeout(f.inner.err) THEN NumTimeouts + 1 ELSE NumTimeouts
    /\ resFrames' = [resFrames EXCEPT ![g] =
           [f EXCEPT !.pc = "returned", !.ret = RoundTripReturn(f.inner)]]
    /\ UNCHANGED <<resTimedOut, resTrips>>
    /\ UNCHANGED notRes

\* the caller has the results
ResReturn(g) ==
    /\ resFrames[g].pc = "returned"
    /\ resFrames' = [resFrames EXCEPT ![g] = IdleTrip]
    /\ UNCHANGED <<NumTimeouts, resTimedOut, resTrips>>
    /\ UNCHANGED notRes

NextRes ==
    \E g \in Lookups :
        \/ ResRoundTrip(g)
        \/ ResTransport(g)
        \/ ResClassify(g)
        \/ ResReturn(g)

ResAtRest ==
    /\ NumTimeouts = 0
    /\ resFrames = [g \in Lookups |-> IdleTrip]
    /\ resTimedOut = 0
    /\ resTrips = 0

----------------------------------------------------------------------------
(* Specifications: one component runs, the others stay as constructed     *)

TLSAtRest ==
    /\ configs = <<>>
    /\ owned = {}
    /\ dConfig = NilPtr
    /\ hKind = "configurable"
    /\ hTimeout = 0
    /\ conn = NoConn
    /\ now = 1
    /\ pc = "idle"
    /\ entry = "none"
    /\ hostport = [host |-> "", port |-> ""]
    /\ hsIn = NilPtr
    /\ hsCfg = NilPtr
    /\ hsStart = 0
    /\ tlsCfg = NilPtr
    /\ pending = NilRet
    /\ innerRet = NilRet
    /\ hsRet = NilRet
    /\ ret = NilRet
    /\ panicked = FALSE
    /\ calls = 0
    /\ innerCalls = 0
    /\ logs = 0

DNSAtRest ==
    /\ dnsData = NoData
    /\ dnsQtype = TypeA
    /\ dnsOp = "none"
    /\ dnsOut = NoOut

VerAtRest ==
    /\ verCfg = [MinVersion |-> 0, MaxVersion |-> 0, ServerName |-> ""]
    /\ verPrev = verCfg
    /\ verLabel = "none"
    /\ verPrevLabel = "none"
    /\ verErr = "nil"
    /\ verCalls = 0

InitSpecTLS == InitTLS /\ DNSAtRest /\ VerAtRest /\ TunAtRest /\ UDPAtRest /\ ResAtRest
SpecTLS == InitSpecTLS /\ [][NextTLS]_vars

InitSpecDNS == InitDNS /\ TLSAtRest /\ VerAtRest /\ TunAtRest /\ UDPAtRest /\ ResAtRest
SpecDNS == InitSpecDNS /\ [][NextDNS]_vars

InitSpecVer == InitVer /\ TLSAtRest /\ DNSAtRest /\ TunAtRest /\ UDPAtRest /\ ResAtRest
SpecVer == InitSpecVer /\ [][NextVer]_vars

InitSpecTun == InitTun /\ TLSAtRest /\ DNSAtRest /\ VerAtRest /\ UDPAtRest /\ ResAtRest
SpecTun == InitSpecTun /\ [][NextTun]_vars

InitSpecUDP == InitUDP /\ TLSAtRest /\ DNSAtRest /\ VerAtRest /\ TunAtRest /\ ResAtRest
SpecUDP == InitSpecUDP /\ [][NextUDP]_vars

InitSpecRes == InitRes /\ TLSAtRest /\ DNSAtRest /\ VerAtRest /\ TunAtRest /\ UDPAtRest
SpecRes == InitSpecRes /\ [][NextRes]_vars

----------------------------------------------------------------------------
(* Properties of the TLS layer (SpecTLS)                                   *)

\* tlsHandshakerConfigurable.Handshake has set the deadline and not yet returned
HandshakeRunning == pc \in {"hs_rootcas", "hs_tls", "hs_defer"}

\* tlsHandshakerConfigurable.Handshake ran in the call in progress and has returned,
\* normally or by a panic
HandshakeReturned == hsStart # 0 /\ pc \in {"log_end", "dial_end", "done"}

\* C1: from its SetDeadline until the underlying handshake has run, the raw
\* connection carries the bounded deadline (the time Handshake read plus
\* Timeout, or plus 10 when Timeout <= 0); once Handshake has returned, by
\* success, by failure or by a panic, the deadline is the zero value again.
C1_DeadlineSetThenCleared ==
    /\ HandshakeRunning =>
          /\ conn.deadline = hsStart + (IF hTimeout <= 0 THEN 10 ELSE hTimeout)
          /\ conn.deadline > hsStart
          /\ conn.deadline # NoDeadline
    /\ HandshakeReturned => conn.deadline = NoDeadline

\* a handshake that failed on the deadline has returned to its caller
C1_Witness ==
    /\ pc = "done"
    /\ entry = "direct"
    /\ hsStart # 0
    /\ innerRet.err = TimeoutError
    /\ hTimeout > 0
    /\ now >= hsStart + hTimeout

\* C2: a dialed connection is returned open and never closed when the handshake
\* succeeded, and closed exactly once by the dialer when it failed; while the
\* handshaker runs and when it returns, the connection it received is open
\* and has never been closed.
C2_ConnectionFate ==
    /\ (pc = "done" /\ entry = "dial" /\ conn # NoConn) =>
          IF ret.err = "nil"
          THEN conn.open /\ conn.closes = 0 /\ ret.conn = hsRet.conn
          ELSE ~conn.open /\ conn.closes = 1 /\ ret.conn = "nil" /\ ret.err = hsRet.err
    /\ (\/ pc \in {"log_begin", "hs_begin", "hs_rootcas", "hs_tls", "hs_defer",
                   "mock", "log_end", "dial_end"}
        \/ (pc = "done" /\ entry = "direct")) =>
          conn.open /\ conn.closes = 0

\* a dial whose handshake failed has returned
C2_Witness ==
    /\ pc = "done"
    /\ entry = "dial"
    /\ hsStart # 0
    /\ innerRet.err # "nil"
    /\ ret.err = innerRet.err
    /\ conn.closes = 1

\* the logger has emitted both lines: it called the wrapped handshaker and returned
LoggerReturned == logs = 2

\* C3 as stated: the logger returns exactly the triple the wrapped handshaker
\* returned, and calls it once.
C3_LoggerReturnsSameTriple ==
    LoggerReturned => (hsRet = innerRet /\ innerCalls = 1)

\* C3 as amended: the logger calls the wrapped handshaker once and returns its
\* error unchanged; when that error is nil it returns the same connection and
\* state, and when it is not nil it returns a nil connection and an empty state
\* whatever connection and state came with the error.
C3_LoggerReturn ==
    LoggerReturned =>
        /\ innerCalls = 1
        /\ hsRet.err = innerRet.err
        /\ innerRet.err = "nil" => hsRet = innerRet
        /\ innerRet.err # "nil" => (hsRet.conn = "nil" /\ hsRet.state = "empty")

\* the wrapped handshaker returned a connection and a state together with an error
C3_Witness ==
    /\ LoggerReturned
    /\ innerRet.err # "nil"
    /\ innerRet.conn = "tlsconn"
    /\ innerRet.state = "negotiated"

\* the configs the caller supplied: the ones it allocated and the one Handshake received
CallerConfigs == owned \cup ({hsIn} \ {NilPtr})

\* C4, the state part: the config handed to the TLS implementation has a trust
\* root; it is the received config itself when that one has RootCAs set, and
\* otherwise a fresh copy of it that differs in RootCAs only; the default
\* bundle is in no config but that copy.
C4_DefaultInClone ==
    /\ tlsCfg # NilPtr =>
          /\ configs[tlsCfg].RootCAs # "nil"
          /\ configs[hsIn].RootCAs # "nil" => tlsCfg = hsIn
          /\ configs[hsIn].RootCAs = "nil" =>
                /\ tlsCfg \notin CallerConfigs
                /\ configs[tlsCfg] = [configs[hsIn] EXCEPT !.RootCAs = DefaultCertPool]
    /\ \A p \in DOMAIN configs :
          configs[p].RootCAs = DefaultCertPool => (p \notin CallerConfigs /\ p = hsCfg)

\* C4, the step part: no step changes a config the caller supplied
C4_NoStepMutates ==
    \A p \in CallerConfigs :
        (p \in DOMAIN configs /\ p \in DOMAIN configs') => configs'[p] = configs[p]

\* C4: neither TLSDialer.config nor Handshake mutates a caller-supplied config, and
\* the default trust bundle goes only into the clone handed to the TLS implementation.
C4_CallerConfigsNotMutated == [][C4_NoStepMutates]_vars /\ []C4_DefaultInClone

\* a dial from a template without RootCAs has handed a config to the TLS implementation
C4_Witness ==
    /\ entry = "dial"
    /\ dConfig # NilPtr
    /\ configs[dConfig].RootCAs = "nil"
    /\ tlsCfg # NilPtr
    /\ pc = "done"

\* the dialer's template, &tls.Config{} when TLSDialer.Config is nil
Template == IF dConfig = NilPtr THEN EmptyConfig ELSE configs[dConfig]

\* C5: the config the dialer hands to the handshaker has the template's
\* NextProtos when that list is not empty and otherwise h2, http/1.1 for port
\* 443, dot for port 853 and nothing for any other port; its ServerName is the
\* template's when not empty and the host of the address otherwise.
C5_DialerConfig ==
    (entry = "dial" /\ hsIn # NilPtr) =>
        LET c == configs[hsIn] IN
        /\ c.NextProtos =
              IF Template.NextProtos # <<>> THEN Template.NextProtos
              ELSE IF hostport.port = "443" THEN <<"h2", "http/1.1">>
              ELSE IF hostport.port = "853" THEN <<"dot">>
              ELSE <<>>
        /\ c.ServerName =
              IF Template.ServerName # "" THEN Template.ServerName ELSE hostport.host
        /\ hostport.host \in {"example.com", "1.1.1.1"}
        /\ c.RootCAs = Template.RootCAs

\* a dial to port 443 from a template without protocols or server name
C5_Witness ==
    /\ entry = "dial"
    /\ hsIn # NilPtr
    /\ hostport.port = "443"
    /\ Template.NextProtos = <<>>
    /\ Template.ServerName = ""
    /\ configs[hsIn].NextProtos = <<"h2", "http/1.1">>

----------------------------------------------------------------------------
(* Properties of the DNS decoder (SpecDNS)                                 *)

\* the decoder ran on a reply that parses
DecodedParsed == dnsOp # "none" /\ dnsData.corrupt = ""

\* the HTTPS answer of a reply that would decode were its status success
GoodHTTPSAnswer ==
    [type |-> "HTTPS", ip |-> <<>>, Value |-> <<Alpn(<<"h2">>)>>]

\* C6: for a reply that parses with a status other than success, both
\* decoders return NoSuchHost for name-error, Refused for refused and
\* Misbehaving for any other status, with a nil result, whatever the answers.
C6_StatusBeforeAnswers ==
    (DecodedParsed /\ dnsData.Rcode # RcodeSuccess) =>
        /\ dnsOut.err = IF dnsData.Rcode = RcodeNameError THEN ErrOODNSNoSuchHost
                        ELSE IF dnsData.Rcode = RcodeRefused THEN ErrOODNSRefused
                        ELSE ErrOODNSMisbehaving
        /\ dnsOut.addrs = NilSlice
        /\ dnsOut.https = NilHTTPSSvc

\* a refused reply that carries a decodable HTTPS answer
C6_Witness ==
    /\ dnsOp = "DecodeHTTPS"
    /\ dnsData.corrupt = ""
    /\ dnsData.Rcode = RcodeRefused
    /\ dnsData.Answer = <<GoodHTTPSAnswer>>
    /\ dnsOut.err = ErrOODNSRefused

\* the decoder ran on bytes that do not parse
DecodedCorrupt == dnsOp # "none" /\ dnsData.corrupt # ""

MatchingRecords(qtype, answer) ==
    LET Wanted(rr) == \/ (qtype = TypeA /\ rr.type = "A")
                      \/ (qtype = TypeAAAA /\ rr.type = "AAAA")
    IN  SelectSeq(answer, Wanted)

\* C8: for a success reply and qtype A or AAAA, DecodeLookupHost returns the
\* addresses of the records of that type, in answer order, and no error when
\* there is at least one, and NoAnswer with a nil result when there is none.
C8_LookupHostAddresses ==
    (dnsOp = "DecodeLookupHost" /\ dnsData.corrupt = ""
        /\ dnsData.Rcode = RcodeSuccess /\ dnsQtype \in {TypeA, TypeAAAA}) =>
        LET m == MatchingRecords(dnsQtype, dnsData.Answer) IN
        IF Len(m) > 0
        THEN /\ dnsOut.err = "nil"
             /\ ~dnsOut.addrs.nil
             /\ Len(dnsOut.addrs.items) = Len(m)
             /\ \A i \in 1..Len(m) : dnsOut.addrs.items[i] = IPString(m[i].ip)
        ELSE /\ dnsOut.err = ErrOODNSNoAnswer
             /\ dnsOut.addrs = NilSlice

\* an A lookup decoded one address from an answer that starts with an AAAA record
C8_Witness ==
    /\ dnsOp = "DecodeLookupHost"
    /\ dnsQtype = TypeA
    /\ Len(dnsData.Answer) = 2
    /\ dnsData.Answer[1].type = "AAAA"
    /\ dnsOut.err = "nil"
    /\ dnsOut.addrs.items = <<IPString(<<8, 8, 8, 8>>)>>

\* the value sub-records of the HTTPS answers, in encounter order
RECURSIVE AllValues(_)
AllValues(answer) ==
    IF answer = <<>> THEN <<>>
    ELSE (IF Head(answer).type = "HTTPS" THEN Head(answer).Value ELSE <<>>)
         \o AllValues(Tail(answer))

\* the hints of the sub-records with the given key, as strings, in encounter order
RECURSIVE HintStrings(_, _)
HintStrings(values, key) ==
    IF values = <<>> THEN <<>>
    ELSE (IF Head(values).key = key
          THEN [i \in 1..Len(Head(values).Hint) |-> IPString(Head(values).Hint[i])]
          ELSE <<>>)
         \o HintStrings(Tail(values), key)

\* the list of the last ALPN sub-record, empty when there is none
LastALPN(values) ==
    LET IsAlpn(v) == v.key = "alpn"
        a == SelectSeq(values, IsAlpn)
    IN  IF a = <<>> THEN <<>> ELSE a[Len(a)].Alpn

\* C9: for a success reply, DecodeHTTPS returns the ALPN list of the last
\* ALPN sub-record of all HTTPS answers and the concatenation of all IPv4 and
\* all IPv6 hints in encounter order; when that ALPN list is empty it returns
\* NoAnswer and a nil record, hints or not.
C9_HTTPSLastALPNAllHints ==
    (dnsOp = "DecodeHTTPS" /\ dnsData.corrupt = "" /\ dnsData.Rcode = RcodeSuccess) =>
        LET v == AllValues(dnsData.Answer) IN
        IF LastALPN(v) = <<>>
        THEN /\ dnsOut.err = ErrOODNSNoAnswer
             /\ dnsOut.https = NilHTTPSSvc
        ELSE /\ dnsOut.err = "nil"
             /\ ~dnsOut.https.nil
             /\ dnsOut.https.ALPN = LastALPN(v)
             /\ dnsOut.https.IPv4 = HintStrings(v, "ipv4hint")
             /\ dnsOut.https.IPv6 = HintStrings(v, "ipv6hint")

\* two HTTPS answers: the second one's last ALPN replaced the first one's, the
\* hints of the first are kept
C9_Witness ==
    /\ dnsOp = "DecodeHTTPS"
    /\ Len(dnsData.Answer) = 2
    /\ \E i \in 1..Len(dnsData.Answer[1].Value) :
            dnsData.Answer[1].Value[i] = Alpn(<<"h3">>)
    /\ dnsOut.err = "nil"
    /\ dnsOut.https.ALPN = <<"h2">>
    /\ Len(dnsOut.https.IPv4) = 2
    /\ Len(dnsOut.https.IPv6) = 1

----------------------------------------------------------------------------
(* Properties of ConfigureTLSVersion (SpecVer)                             *)

RecognizedLabels == {"TLSv1.3", "TLSv1.2", "TLSv1.1", "TLSv1.0", "TLSv1"}

\* the version a recognized label pins
Pinned(label) ==
    IF label = "TLSv1.3" THEN VersionTLS13
    ELSE IF label = "TLSv1.2" THEN VersionTLS12
    ELSE IF label = "TLSv1.1" THEN VersionTLS11
    ELSE VersionTLS10

\* C10: after ConfigureTLSVersion with a recognized label, MinVersion and
\* MaxVersion are both the pinned version and nothing else changed, and a second
\* call with the same label leaves the config as the first left it; with the
\* empty label there is no error and the config is as before; with any other
\* label the error is ErrInvalidTLSVersion and the config is as before.
C10_ConfigureTLSVersion ==
    verCalls > 0 =>
        /\ verLabel \in RecognizedLabels =>
              /\ verErr = "nil"
              /\ verCfg.MinVersion = Pinned(verLabel)
              /\ verCfg.MaxVersion = Pinned(verLabel)
              /\ verCfg.ServerName = verPrev.ServerName
              /\ verPrevLabel = verLabel => verCfg = verPrev
        /\ verLabel = "" => (verErr = "nil" /\ verCfg = verPrev)
        /\ verLabel \notin RecognizedLabels \cup {""} =>
              (verErr = ErrInvalidTLSVersion /\ verCfg = verPrev)

\* TLSv1.1 applied twice to a config that held other versions
C10_Witness ==
    /\ verCalls = 2
    /\ verLabel = "TLSv1.1"
    /\ verPrevLabel = "TLSv1.1"
    /\ verCfg.MinVersion = VersionTLS11
    /\ verCfg = verPrev

----------------------------------------------------------------------------
(* Properties of the psiphon tunnel                                        *)

\* the steps psiphonStart takes, in order
StartChain == <<"FetchPsiphonConfig", "RemoveAll", "MkdirAll", "Start">>

\* the last psiphonStart has returned
StartReturned == tunPc = "idle" /\ tunStarts > 0

\* the handle the caller holds refers to a tunnel that Start returned
HandleStarted == ~tunHandle.nil /\ tunHandle.tunnel # NilPtr

\* C11: a psiphonStart whose context is already cancelled returns the
\* cancellation error and a nil tunnel, having called none of
\* FetchPsiphonConfig, RemoveAll, MkdirAll and Start: the working directory
\* and the tunnels are as they were before the call.
C11_CancelledReturned ==
    tunCancelled =>
        /\ tunPc = "idle"
        /\ tunRet = [handle |-> AbsentHandle, err |-> ErrContextCanceled]
        /\ tunTrace = <<>>
        /\ tunConfig = "none"

C11_CancelledNoSideEffect ==
    [][(tunStarts' # tunStarts /\ tunCancelled')
         => (tunDir' = tunDir /\ tunnels' = tunnels)]_vars

C11_CancelledBeforeSideEffects ==
    []C11_CancelledReturned /\ C11_CancelledNoSideEffect

\* a cancelled call made while the tunnel of an earlier call is running
C11_Witness ==
    /\ tunCancelled
    /\ tunStarts = 2
    /\ tunRet.err = ErrContextCanceled
    /\ Len(tunnels) = 1
    /\ tunnels[1].state = "running"
    /\ tunDir = "inuse"

C17_Chain ==
    /\ Len(tunTrace) <= Len(StartChain)
    /\ \A i \in 1..Len(tunTrace) :
         /\ tunTrace[i].op = StartChain[i]
         /\ i < Len(tunTrace) => tunTrace[i].ok
         /\ i > 1 => tunTrace[i].path = <<tunWorkDir, "/", "oonipsiphon">>
    /\ tunPc = "start" => tunConfig = "fetched" /\ tunDir = "empty"
    /\ \A i \in 1..Len(tunnels) : tunnels[i].config = "fetched"

C17_Returned ==
    (StartReturned /\ ~tunCancelled) =>
        /\ tunTrace # <<>>
        /\ LET last == tunTrace[Len(tunTrace)]
           IN  IF last.ok
               THEN /\ last.op = "Start"
                    /\ tunRet.err = "nil"
                    /\ ~tunRet.handle.nil
                    /\ tunRet.handle.tunnel = Len(tunnels)
                    /\ tunRet.handle.duration = tunnels[Len(tunnels)].bootstrap
               ELSE tunRet = [handle |-> AbsentHandle,
                              err |-> DependencyError(last.op)]

C17_OnlyStartAddsTunnel ==
    [][Len(tunnels') # Len(tunnels)
         => /\ tunPc = "start"
            /\ Len(tunnels') = Len(tunnels) + 1
            /\ tunnels'[Len(tunnels')].state = "running"
            /\ tunRet'.err = "nil"]_vars

C17_StrictChain == [](C17_Chain /\ C17_Returned) /\ C17_OnlyStartAddsTunnel

\* a call that stopped at a failed MkdirAll, after an earlier call succeeded
C17_Witness ==
    /\ StartReturned
    /\ tunStarts = 2
    /\ Len(tunTrace) = 3
    /\ ~tunTrace[3].ok
    /\ tunRet = [handle |-> AbsentHandle, err |-> "mkdirall failed"]
    /\ Len(tunnels) = 1

----------------------------------------------------------------------------
(* Properties of saverUDPConn                                              *)

\* goroutine g has saved its event and is returning
UDPReturning(g) == udpFrames[g].pc = "write" /\ udpFrames'[g].pc = "returned"

\* the event a call with frame f must have saved, stated from its inputs
\* and from what the underlying connection returned
ExpectedEvent(f) ==
    [Address |-> IF f.op = "WriteTo" THEN f.addr[1]
                 ELSE IF f.inner.addr = NilAddr THEN "" ELSE f.inner.addr[1],
     Data |-> [i \in 1..f.inner.n |-> f.buf[i]],
     Duration |-> f.stop - f.start,
     Err |-> f.inner.err,
     NumBytes |-> f.inner.n,
     Name |-> IF f.op = "WriteTo" THEN "write_to" ELSE "read_from",
     Time |-> f.stop]

\* C14: a WriteTo or ReadFrom that returns has called the underlying
\* connection once and appended one event, and returns what the underlying
\* connection returned, on success and on failure.
C14_OnceEach ==
    \A g \in Goroutines :
        LET f == udpFrames[g] IN
        /\ f.delegated <= 1
        /\ f.written <= 1
        /\ f.pc = "returned" =>
             /\ f.delegated = 1
             /\ f.written = 1
             /\ f.ret = f.inner

\* C14: the event a returning call appended has the returned count and error,
\* the first n bytes of the buffer as its payload (nothing when n = 0), and
\* the peer's address, empty when ReadFrom got no peer address.
C14_EventAppended ==
    [][\A g \in Goroutines :
         UDPReturning(g) =>
            /\ udpTrace' = Append(udpTrace, ExpectedEvent(udpFrames[g]))
            /\ udpTrace'[Len(udpTrace')].NumBytes = udpFrames'[g].ret.n
            /\ udpTrace'[Len(udpTrace')].Err = udpFrames'[g].ret.err
            /\ Len(udpTrace'[Len(udpTrace')].Data) = udpFrames'[g].ret.n]_vars

C15_TraceOrdered ==
    \A i, j \in 1..Len(udpTrace) : i < j => udpTrace[i].Time <= udpTrace[j].Time

C15_AppendOnly ==
    [][udpTrace' # udpTrace
         => /\ Len(udpTrace') = Len(udpTrace) + 1
            /\ SubSeq(udpTrace', 1, Len(udpTrace)) = udpTrace]_vars

C15_OrderedByCompletionTime == []C15_TraceOrdered /\ C15_AppendOnly

----------------------------------------------------------------------------
(* Properties of the SerialResolver's timeout counter                      *)

\* the round-trips whose transport reported a timeout and whose increment
\* is still to come
PendingTimeouts ==
    Cardinality({g \in Lookups : /\ resFrames[g].pc = "classify"
                                 /\ resFrames[g].inner.err = "ETIMEDOUT"})

\* C16: the counter is the number of round-trips whose transport reported a
\* timeout and that the resolver has classified: none is lost, whatever the
\* interleaving.  A round-trip that failed returns the transport's error and
\* a nil reply.
C16_CounterCountsTimeouts ==
    /\ NumTimeouts + PendingTimeouts = resTimedOut
    /\ \A g \in Lookups :
         LET f == resFrames[g] IN
         (f.pc = "returned" /\ f.inner.err # "nil")
            => f.ret = [reply |-> <<>>, err |-> f.inner.err]

\* C16: classifying a timeout adds exactly 1 to the counter; classifying
\* another error or a success, and every other step, leaves it unchanged.
C16_ExactlyOnePerTimeout ==
    [][/\ NumTimeouts' >= NumTimeouts
       /\ \A g \in Lookups :
            (resFrames[g].pc = "classify" /\ resFrames'[g].pc = "returned")
               => NumTimeouts' = NumTimeouts +
                     (IF resFrames[g].inner.err = "ETIMEDOUT" THEN 1 ELSE 0)
       /\ (\A g \in Lookups : resFrames[g].pc = "classify" => resFrames'[g] = resFrames[g])
            => NumTimeouts' = NumTimeouts]_vars

C16_TimeoutCounter == []C16_CounterCountsTimeouts /\ C16_ExactlyOnePerTimeout

\* two concurrent round-trips have both timed out and been counted, and a
\* third failed with another error
C16_Witness ==
    /\ NumTimeouts = 2
    /\ resTrips = 3
    /\ resFrames[1].pc = "returned"
    /\ resFrames[1].ret.err = "mocked error"
    /\ resFrames[2].pc = "returned"
    /\ resFrames[2].ret.err = "ETIMEDOUT"

====
